---- MODULE Spec2Model ----
(***************************************************************************)
(* Model of the gridiron tools:                                            *)
(*   tools/stitch_euler.py     the result stitcher          (SpecStitch)   *)
(*   tools/plot_perf.py        the timeline analyzer        (SpecPerf)     *)
(*   tools/test_euler_dist.py  the cluster run script       (Spec)         *)
(*   tools/bench_euler_dist.py the cluster benchmark script (SpecBench)    *)
(***************************************************************************)
EXTENDS Integers, Sequences, FiniteSets, TLC

VARIABLES
    \* ---- the working directory, shared by the scripts
    disk,       \* path -> content of the file
    disk0,      \* history: the working directory when the script started
    \* ---- stitch_euler.py
    files,      \* the -f argument list
    spc,        \* position of the stitcher script
    combined,   \* the accumulator
    si,         \* the loop index i of the merge loop (0-based, as in the code)
    console,    \* what the stitcher printed
    \* ---- test_euler_dist.py / bench_euler_dist.py
    args,       \* the parsed command line of test_euler_dist.py
    pc,         \* position of the script
    peers,      \* the peer address list
    cmds,       \* one command per rank
    out,        \* the process handles, in launch order
    wi,         \* how many handles the wait comprehension has waited on
    rets,       \* the return codes the wait comprehension has collected
    results,    \* the result files get_result_files() found
    reported,   \* the ranks the script has reported as failed
    bi,         \* bench_euler_dist.py: index of the current (peers, threads) run
    \* ---- plot_perf.py
    inputs,     \* how many CSV files the command line names
    ppc,        \* position of chart_work_periods
    subplot,    \* the subplot counter
    events,     \* the rows read_results returned for the current file
    work,       \* the work rows of the current file
    ids,        \* the worker ids of the current file
    idx,        \* the index of the worker loop
    axes        \* the lines plotted on the current subplot

stitchVars == <<files, spc, combined, si, console>>
runVars == <<args, pc, peers, cmds, out, wi, rets, results, reported, bi>>
perfVars == <<inputs, ppc, subplot, events, work, ids, idx, axes>>
vars == <<disk, disk0, stitchVars, runVars, perfVars>>

(***************************************************************************)
(* Bounds of the model.                                                    *)
(***************************************************************************)
MaxFiles == 3       \* stitch_euler.py: at most this many -f arguments
MaxPeers == 3       \* test_euler_dist.py: --peers is at most this
MaxInputs == 2      \* plot_perf.py: at most this many -i arguments
MaxSpans == 3       \* plot_perf.py: at most this many rows in a CSV file

(***************************************************************************)
(* Files.  A file is missing, corrupt (present, not decodable as CBOR) or  *)
(* a decoded state with a primitive field (the patches) and another        *)
(* top-level field (time).                                                 *)
(***************************************************************************)
MissingFile == [kind |-> "missing"]
CorruptFile == [kind |-> "corrupt"]
NoState == [kind |-> "none"]

Axis(s, e) == [start |-> s, end |-> e]
Patch(a0s, a0e, a1s, a1e, d) ==
    [rect |-> <<Axis(a0s, a0e), Axis(a1s, a1e)>>, data |-> d]

State(prim, t) == [kind |-> "state", primitive |-> prim, time |-> t]

Readable(c) == c.kind = "state"

\* A mutation of cbor_load: a file that cannot be loaded is skipped, as an
\* empty state, instead of raising.
cbor_load_skips(d, path) ==
    IF Readable(d[path]) THEN [raised |-> FALSE, value |-> d[path]]
    ELSE [raised |-> FALSE, value |-> State(<<>>, 0)]

\* cbor2.load(open(path, 'rb')): the decoded content; raises when the file is
\* missing (open) or is not CBOR (load).
cbor_load(d, path) ==
    IF Readable(d[path]) THEN [raised |-> FALSE, value |-> d[path]]
    ELSE [raised |-> TRUE]

StitchedPath == "./stitched.cbor"

(***************************************************************************)
(* Strings: decimal formatting, as "{}".format(n) does it, and its         *)
(* inverse; glob's matching of one '*' pattern.                            *)
(***************************************************************************)
Digits == <<"0", "1", "2", "3", "4", "5", "6", "7", "8", "9">>

RECURSIVE Str(_)
Str(n) == IF n < 10 THEN Digits[n + 1]
          ELSE Str(n \div 10) \o Digits[(n % 10) + 1]

DigitVal(c) == CHOOSE v \in 0..9 : Digits[v + 1] = c

RECURSIVE ParseInt(_)
ParseInt(s) ==
    IF Len(s) = 1 THEN DigitVal(s)
    ELSE 10 * ParseInt(SubSeq(s, 1, Len(s) - 1)) + DigitVal(SubSeq(s, Len(s), Len(s)))

\* str.join(sep, xs)
RECURSIVE Join(_, _)
Join(sep, xs) ==
    IF Len(xs) = 0 THEN ""
    ELSE IF Len(xs) = 1 THEN xs[1]
    ELSE xs[1] \o sep \o Join(sep, Tail(xs))

\* str(xs) of a list of strings, as print(xs) writes it.
ListRepr(xs) ==
    "[" \o Join(", ", [k \in 1..Len(xs) |-> "'" \o xs[k] \o "'"]) \o "]"

StartsWith(s, pre) == Len(s) >= Len(pre) /\ SubSeq(s, 1, Len(pre)) = pre
EndsWith(s, suf) == Len(s) >= Len(suf) /\ SubSeq(s, Len(s) - Len(suf) + 1, Len(s)) = suf

\* Does the path match the pattern "./<pre>*<suf>"?  The '*' of glob does not
\* match a leading dot of the file name.
GlobMatch(path, pre, suf) ==
    LET name == SubSeq(path, 3, Len(path))
    IN  /\ StartsWith(path, "./")
        /\ Len(name) >= Len(pre) + Len(suf)
        /\ StartsWith(name, pre)
        /\ EndsWith(name, suf)
        /\ (pre = "" => ~StartsWith(name, "."))

\* glob.glob("./<pre>*<suf>"): the files of the directory that match.
Glob(d, pre, suf) ==
    {path \in DOMAIN d : d[path].kind # "missing" /\ GlobMatch(path, pre, suf)}

\* The orders a list of the elements of S can have.
Perms(S) ==
    {f \in [1..Cardinality(S) -> S] : \A i, j \in 1..Cardinality(S) : i # j => f[i] # f[j]}

SeqsUpTo(S, n) == UNION {[1..k -> S] : k \in 1..n}

RankPath(r) == "./state-rank-" \o Str(r) \o ".cbor"

(***************************************************************************)
(* stitch_euler.py                                                         *)
(***************************************************************************)
\* A mutation of RectOf: the second axis is left out of the tuple.
RectOfFirstAxisOnly(p) == <<p.rect[1].start, p.rect[1].end>>

\* The tuple of one patch's rect.
RectOf(p) == <<p.rect[1].start, p.rect[1].end, p.rect[2].start, p.rect[2].end>>

\* A mutation of check_for_duplicate_patches: the comparison is inverted.
check_inverted(data) ==
    LET primitives == data.primitive
        rects == [k \in 1..Len(primitives) |-> RectOf(primitives[k])]
        distinct_rects == {rects[k] : k \in 1..Len(rects)}
    IN  Len(rects) = Cardinality(distinct_rects)

check_for_duplicate_patches(data) ==
    LET primitives == data.primitive
        rects == [k \in 1..Len(primitives) |-> RectOf(primitives[k])]
        distinct_rects == {rects[k] : k \in 1..Len(rects)}
    IN  Len(rects) # Cardinality(distinct_rects)

\* A mutation of Extend: the new patches go in front.
ExtendPrepends(acc, additional) ==
    [acc EXCEPT !.primitive = additional.primitive \o @]

\* combined['primitive'].extend(additional['primitive'])
Extend(acc, additional) ==
    [acc EXCEPT !.primitive = @ \o additional.primitive]

\* combined = cbor2.load(open(files[0], 'rb'))
StitchLoadFirst ==
    /\ spc = "start"
    /\ IF cbor_load(disk, files[1]).raised
       THEN /\ spc' = "crashed"
            /\ UNCHANGED <<combined, si>>
       ELSE /\ combined' = cbor_load(disk, files[1]).value
            /\ si' = 1
            /\ spc' = "merge"
    /\ UNCHANGED <<disk, disk0, files, console, runVars, perfVars>>

\* One iteration of: for i in range(1, len(files))
StitchMergeNext ==
    /\ spc = "merge"
    /\ si < Len(files)
    /\ IF cbor_load(disk, files[si + 1]).raised
       THEN /\ spc' = "crashed"
            /\ UNCHANGED <<combined, si>>
       ELSE /\ combined' = Extend(combined, cbor_load(disk, files[si + 1]).value)
            /\ si' = si + 1
            /\ spc' = spc
    /\ UNCHANGED <<disk, disk0, files, console, runVars, perfVars>>

\* The if/else after the loop: report the duplicates, or write stitched.cbor.
StitchFinish ==
    /\ spc = "merge"
    /\ si >= Len(files)
    /\ IF check_for_duplicate_patches(combined)
       THEN /\ console' = Append(console, "ERROR: There are duplicate patches in these files")
            /\ spc' = "rejected"
            /\ disk' = disk
       ELSE /\ disk' = [disk EXCEPT ![StitchedPath] = combined]
            /\ spc' = "written"
            /\ console' = console
    /\ UNCHANGED <<disk0, files, combined, si, runVars, perfVars>>

StitchNext == StitchLoadFirst \/ StitchMergeNext \/ StitchFinish

(***************************************************************************)
(* The stitcher's inputs: up to MaxFiles arguments naming rank files,      *)
(* each file missing, corrupt or one of a few states.  P1 and P1b are two  *)
(* patches of the same rect, P3 shares only its first axis with P1.        *)
(***************************************************************************)
P1 == Patch(0, 10, 0, 10, 1)
P1b == Patch(0, 10, 0, 10, 2)
P2 == Patch(10, 20, 0, 10, 1)
P3 == Patch(0, 10, 10, 20, 1)
P4 == Patch(10, 20, 10, 20, 1)

StitchPaths == {RankPath(0), RankPath(1), RankPath(2)}

StitchContents ==
    {MissingFile, CorruptFile, State(<<>>, 1), State(<<P1>>, 1), State(<<P2>>, 2),
     State(<<P4, P3>>, 1), State(<<P1, P2>>, 1), State(<<P1, P1b>>, 1)}

IdlePerf ==
    /\ inputs = 0
    /\ ppc = "idle"
    /\ subplot = 0
    /\ events = <<>>
    /\ work = <<>>
    /\ ids = <<>>
    /\ idx = 0
    /\ axes = <<>>

IdleRun ==
    /\ args = [peers |-> 0, gui |-> FALSE, threads |-> 0, folds |-> 0, tfinal |-> ""]
    /\ pc = "idle"
    /\ peers = <<>>
    /\ cmds = <<>>
    /\ out = <<>>
    /\ wi = 0
    /\ rets = <<>>
    /\ results = <<>>
    /\ reported = {}
    /\ bi = 0

StitchInit ==
    /\ files \in SeqsUpTo(StitchPaths, MaxFiles)
    /\ \E d \in [StitchPaths -> StitchContents] :
          disk = [path \in StitchPaths \cup {StitchedPath} |->
                    IF path \in StitchPaths THEN d[path] ELSE MissingFile]
    /\ disk0 = disk
    /\ spc = "start"
    /\ combined = NoState
    /\ si = 0
    /\ console = <<ListRepr(files)>>
    /\ IdleRun
    /\ IdlePerf

SpecStitch == StitchInit /\ [][StitchNext]_vars

(***************************************************************************)
(* test_euler_dist.py and bench_euler_dist.py: the peer list, the          *)
(* commands, the launch loop and the wait.                                 *)
(***************************************************************************)
BasePort == 8000
Host == "127.0.0.1"

\* A mutation of generate_peers: the ports start one above the base port.
generate_peers_from_one(n) ==
    [k \in 1..n |-> Host \o ":" \o Str(BasePort + k)]

\* ["127.0.0.1:{}".format(8000 + i) for i in range(0, n)]; the list index k is
\* i + 1.
generate_peers(n) ==
    [k \in 1..n |-> Host \o ":" \o Str(BasePort + (k - 1))]

GridSize == 1000
BlockSize == 100

\* test_euler_dist.py's euler_cmd: the arguments of one rank's process.
euler_cmd(t, n, b, folds, tfinal, ps, rank) ==
    [t |-> Str(t), n |-> Str(n), b |-> Str(b), f |-> Str(folds), tfinal |-> tfinal,
     strategy |-> "rayon", peers |-> Join(" ", ps), rank |-> Str(rank)]

\* bench_euler_dist.py's euler_cmd: the same without --tfinal.
bench_euler_cmd(t, n, b, folds, ps, rank) ==
    [t |-> Str(t), n |-> Str(n), b |-> Str(b), f |-> Str(folds),
     strategy |-> "rayon", peers |-> Join(" ", ps), rank |-> Str(rank)]

\* subprocess.Popen(...): a handle of a process that runs.
run_cmd(cmd) == [cmd |-> cmd, st |-> "running"]

\* A mutation of check_for_old_results: one old file is let through.
check_allows_one(d) == Cardinality(Glob(d, "", ".cbor")) > 1

\* len(glob.glob("./*.cbor")) > 0
check_for_old_results(d) == Cardinality(Glob(d, "", ".cbor")) > 0

\* glob.glob("./state-rank-*.cbor"): the matching paths; the list's order is
\* the directory's.
get_result_files(d) == Glob(d, "state-rank-", ".cbor")

\* A mutation of MoreToLaunch: the next process is started when the ones
\* before it have exited.
MoreToLaunchSerialized(o, cs) ==
    Len(o) < Len(cs) /\ \A k \in 1..Len(o) : o[k].st = "exited"

\* for c in cmds: is there a command left to run?
MoreToLaunch(o, cs) == Len(o) < Len(cs)

\* A mutation of MoreToWait: the wait ends with the first process.
MoreToWaitFirstOnly(o, w) == w < Len(o) /\ w < 1

\* [o.wait() for o in out]: is there a handle left to wait on?
MoreToWait(o, w) == w < Len(o)

\* The state file a rank's process writes.
RankState(r) == State(<<Patch(10 * r, 10 * r + 10, 0, 10, 1)>>, 1)

ExitCodes == {0, 1}

\* ---- the stitcher as a process: what stitch_euler.py -f <fs> leaves on disk
RECURSIVE MergeRest(_, _, _, _)
MergeRest(d, fs, k, acc) ==
    IF k > Len(fs) THEN [raised |-> FALSE, value |-> acc]
    ELSE IF cbor_load(d, fs[k]).raised THEN [raised |-> TRUE]
    ELSE MergeRest(d, fs, k + 1, Extend(acc, cbor_load(d, fs[k]).value))

StitchProcess(d, fs) ==
    IF Len(fs) = 0 THEN d      \* argparse: -f expects at least one argument
    ELSE IF cbor_load(d, fs[1]).raised THEN d
    ELSE LET m == MergeRest(d, fs, 2, cbor_load(d, fs[1]).value)
         IN  IF m.raised THEN d
             ELSE IF check_for_duplicate_patches(m.value) THEN d
             ELSE [d EXCEPT ![StitchedPath] = m.value]

StatePath == "./state.cbor"

\* ---- actions of test_euler_dist.py
\* if check_for_old_results(): print(...); exit()
Guard ==
    /\ pc = "guard"
    /\ pc' = IF check_for_old_results(disk) THEN "refused" ELSE "build"
    /\ UNCHANGED <<disk, disk0, stitchVars, perfVars, args, peers, cmds, out, wi, rets, results, reported, bi>>

\* peers = [...]; cmds = [euler_cmd(...) for rank in range(0, args['peers'])]
Build ==
    /\ pc = "build"
    /\ peers' = generate_peers(args.peers)
    /\ cmds' = [k \in 1..args.peers |->
                  euler_cmd(args.threads, GridSize, BlockSize, args.folds, args.tfinal,
                            peers', k - 1)]
    /\ pc' = "launch"
    /\ UNCHANGED <<disk, disk0, stitchVars, perfVars, args, out, wi, rets, results, reported, bi>>

\* One iteration of: for c in cmds: out.append(run_cmd(c))
LaunchNext ==
    /\ pc = "launch"
    /\ MoreToLaunch(out, cmds)
    /\ out' = Append(out, run_cmd(cmds[Len(out) + 1]))
    /\ UNCHANGED <<disk, disk0, stitchVars, perfVars, args, pc, peers, cmds, wi, rets, results, reported, bi>>

\* The launch loop ends: the wait comprehension begins.
LaunchDone ==
    /\ pc = "launch"
    /\ ~MoreToLaunch(out, cmds)
    /\ pc' = "wait"
    /\ UNCHANGED <<disk, disk0, stitchVars, perfVars, args, peers, cmds, out, wi, rets, results, reported, bi>>

\* A process that runs exits with some code.
ProcExit(k, c) ==
    /\ k \in 1..Len(out)
    /\ out[k].st = "running"
    /\ out' = [out EXCEPT ![k] = [cmd |-> out[k].cmd, st |-> "exited", code |-> c]]
    /\ UNCHANGED <<disk, disk0, stitchVars, perfVars, args, pc, peers, cmds, wi, rets, results, reported, bi>>

\* A process that runs writes its rank's state file.
ProcWrite(k) ==
    /\ k \in 1..Len(out)
    /\ out[k].st = "running"
    /\ disk' = [disk EXCEPT ![RankPath(k - 1)] = RankState(k - 1)]
    /\ UNCHANGED <<disk0, stitchVars, perfVars, runVars, perfVars>>

\* One o.wait() of the comprehension: it returns when the process has exited.
WaitNext ==
    /\ pc = "wait"
    /\ MoreToWait(out, wi)
    /\ out[wi + 1].st = "exited"
    /\ rets' = Append(rets, out[wi + 1].code)
    /\ wi' = wi + 1
    /\ UNCHANGED <<disk, disk0, stitchVars, perfVars, args, pc, peers, cmds, out, results, reported, bi>>

\* The comprehension ends and its list is dropped; if args['gui']: ...
WaitDone ==
    /\ pc = "wait"
    /\ ~MoreToWait(out, wi)
    /\ rets' = <<>>
    /\ pc' = IF args.gui THEN "results" ELSE "done"
    /\ UNCHANGED <<disk, disk0, stitchVars, perfVars, args, peers, cmds, out, wi, results, reported, bi>>

\* results = get_result_files()
GetResults ==
    /\ pc = "results"
    /\ results' \in Perms(get_result_files(disk))
    /\ pc' = "stitch"
    /\ UNCHANGED <<disk, disk0, stitchVars, perfVars, args, peers, cmds, out, wi, rets, reported, bi>>

\* stitch_results(results): run the stitcher, wait for it, rename its output
\* (os.rename raises when there is none).
StitchResults ==
    /\ pc = "stitch"
    /\ LET d == StitchProcess(disk, results)
       IN  IF d[StitchedPath].kind = "missing"
           THEN /\ disk' = d
                /\ pc' = "crashed"
           ELSE /\ disk' = [d EXCEPT ![StatePath] = d[StitchedPath],
                                     ![StitchedPath] = MissingFile]
                /\ pc' = "chart"
    /\ UNCHANGED <<disk0, stitchVars, perfVars, args, peers, cmds, out, wi, rets, results, reported, bi>>

\* show_chart()
ShowChart ==
    /\ pc = "chart"
    /\ pc' = "done"
    /\ UNCHANGED <<disk, disk0, stitchVars, perfVars, args, peers, cmds, out, wi, rets, results, reported, bi>>

Next ==
    \/ Guard
    \/ Build
    \/ LaunchNext
    \/ LaunchDone
    \/ \E k \in 1..Len(out), c \in ExitCodes : ProcExit(k, c)
    \/ \E k \in 1..Len(out) : ProcWrite(k)
    \/ WaitNext
    \/ WaitDone
    \/ GetResults
    \/ StitchResults
    \/ ShowChart

IdleStitch ==
    /\ files = <<>>
    /\ spc = "idle"
    /\ combined = NoState
    /\ si = 0
    /\ console = <<>>

\* The files a previous run, or the user, may have left in the directory.
OldFiles ==
    [path \in {RankPath(0), StatePath, "./.hidden.cbor", "./notes.txt"} |->
        IF path = "./notes.txt" THEN CorruptFile
        ELSE IF path = "./.hidden.cbor" THEN State(<<>>, 1)
        ELSE State(<<P1>>, 1)]

RunPaths == {RankPath(r) : r \in 0..(MaxPeers - 1)} \cup DOMAIN OldFiles \cup {StitchedPath}

Init ==
    /\ \E old \in SUBSET (DOMAIN OldFiles) :
          disk = [path \in RunPaths |-> IF path \in old THEN OldFiles[path] ELSE MissingFile]
    /\ disk0 = disk
    /\ \E p \in 1..MaxPeers, g \in BOOLEAN, t \in {1, 2} :
          args = [peers |-> p, gui |-> g, threads |-> t, folds |-> 1, tfinal |-> "0.1"]
    /\ pc = "guard"
    /\ peers = <<>>
    /\ cmds = <<>>
    /\ out = <<>>
    /\ wi = 0
    /\ rets = <<>>
    /\ results = <<>>
    /\ reported = {}
    /\ bi = 0
    /\ IdleStitch
    /\ IdlePerf

Spec == Init /\ [][Next]_vars

(***************************************************************************)
(* plot_perf.py: chart_work_periods.  A row of the log is                  *)
(* <<event, id, start, stop>>, as read_results returns it.                 *)
(***************************************************************************)
\* A mutation of extract_results_by_event: rows of every event type are kept.
extract_results_any_event(event, rs) ==
    [k \in 1..Len(rs) |-> <<rs[k][2], rs[k][3], rs[k][4]>>]

\* [(id, start, stop) for (ty, id, start, stop) in results if ty == event]
extract_results_by_event(event, rs) ==
    LET kept == SelectSeq(rs, LAMBDA r : r[1] = event)
    IN  [k \in 1..Len(kept) |-> <<kept[k][2], kept[k][3], kept[k][4]>>]

\* [(i, start, stop) for (i, start, stop) in results if i == id]
extract_results_by_id(id, rs) ==
    SelectSeq(rs, LAMBDA r : r[1] = id)

extract_work_results(rs) == extract_results_by_event("work", rs)

extract_network_results(rs) == extract_results_by_event("network", rs)

\* list(set(ids)): the different ids, in the order the set gives them; every
\* order is possible.
extract_ids(rs) == Perms({rs[k][1] : k \in 1..Len(rs)})

extract_network(rs) ==
    [k \in 1..Len(rs) |-> <<<<rs[k][2], rs[k][3]>>, <<0, 0>>>>]

extract_work_lines(y, rs) ==
    [k \in 1..Len(rs) |-> <<<<rs[k][2], rs[k][3]>>, <<y, y>>>>]

\* plt.plot(x[idx][0], x[idx][1], fmt, ...) for every line of x.
Plot(ax, x, fmt) ==
    ax \o [k \in 1..Len(x) |-> [xs |-> x[k][1], ys |-> x[k][2], fmt |-> fmt]]

\* The rows a CSV file may hold.
Rows ==
    {<<"work", 1, 0, 5>>, <<"work", 1, 5, 9>>, <<"work", 2, 0, 5>>,
     <<"network", 1, 5, 7>>, <<"network", 3, 0, 2>>, <<"idle", 1, 0, 1>>}

Logs == {<<>>} \cup SeqsUpTo(Rows, MaxSpans)

\* read_results(file): the rows of the file; open raises when there is no
\* such file.
read_results ==
    {[raised |-> TRUE]} \cup {[raised |-> FALSE, value |-> l] : l \in Logs}

\* for f in files: plt.subplot(...); subplot += 1; results = read_results(f);
\* work = extract_work_results(results); ids = extract_ids(work)
PerfOpenFile ==
    /\ ppc = "next_file"
    /\ subplot <= inputs
    /\ axes' = <<>>
    /\ subplot' = subplot + 1
    /\ \E r \in read_results :
          IF r.raised
          THEN /\ ppc' = "crashed"
               /\ UNCHANGED <<events, work, ids, idx>>
          ELSE /\ events' = r.value
               /\ work' = extract_work_results(events')
               /\ ids' \in extract_ids(work')
               /\ idx' = 0
               /\ ppc' = "workers"
    /\ UNCHANGED <<disk, disk0, stitchVars, runVars, inputs>>

\* One iteration of: for idx in range(0, len(ids))
PerfPlotWorker ==
    /\ ppc = "workers"
    /\ idx < Len(ids)
    /\ LET worker_results == extract_results_by_id(ids[idx + 1], work)
           x == extract_work_lines(idx + 2, worker_results)
       IN  axes' = Plot(axes, x, "-")
    /\ idx' = idx + 1
    /\ UNCHANGED <<disk, disk0, stitchVars, runVars, inputs, ppc, subplot, events, work, ids>>

\* After the worker loop: the network rows, on the base line.
PerfPlotNetwork ==
    /\ ppc = "workers"
    /\ idx >= Len(ids)
    /\ LET network == extract_network_results(events)
           x == extract_network(network)
       IN  axes' = Plot(axes, x, "-^")
    /\ ppc' = "next_file"
    /\ UNCHANGED <<disk, disk0, stitchVars, runVars, inputs, subplot, events, work, ids, idx>>

\* plt.legend(); plt.show()
PerfShow ==
    /\ ppc = "next_file"
    /\ subplot > inputs
    /\ ppc' = "shown"
    /\ UNCHANGED <<disk, disk0, stitchVars, runVars, inputs, subplot, events, work, ids, idx, axes>>

PerfNext == PerfOpenFile \/ PerfPlotWorker \/ PerfPlotNetwork \/ PerfShow

PerfInit ==
    /\ inputs \in 1..MaxInputs
    /\ ppc = "next_file"
    /\ subplot = 1
    /\ events = <<>>
    /\ work = <<>>
    /\ ids = <<>>
    /\ idx = 0
    /\ axes = <<>>
    /\ disk = <<>>
    /\ disk0 = <<>>
    /\ IdleStitch
    /\ IdleRun

SpecPerf == PerfInit /\ [][PerfNext]_vars

(***************************************************************************)
(* Properties of the timeline analyzer.                                    *)
(***************************************************************************)
\* The (start, stop) intervals of the work rows of worker w, and of the
\* network rows, in the order of the log.
WorkIntervals(w) ==
    LET kept == SelectSeq(events, LAMBDA r : r[1] = "work" /\ r[2] = w)
    IN  [k \in 1..Len(kept) |-> <<kept[k][3], kept[k][4]>>]

NetworkIntervals ==
    LET kept == SelectSeq(events, LAMBDA r : r[1] = "network")
    IN  [k \in 1..Len(kept) |-> <<kept[k][3], kept[k][4]>>]

\* The intervals plotted at height y, in plot order.
PlottedAt(y) ==
    LET kept == SelectSeq(axes, LAMBDA l : l.ys = <<y, y>>)
    IN  [k \in 1..Len(kept) |-> kept[k].xs]

WorkerIds == {events[k][2] : k \in {j \in 1..Len(events) : events[j][1] = "work"}}

SubplotDrawn == ppc \in {"next_file", "shown"} /\ subplot > 1

\* C10: when a file's subplot is drawn, every worker id of a work row has a
\* row of its own on the chart, which holds exactly the intervals of that
\* worker's work rows in log order; the base line holds exactly the intervals of
\* the network rows, of any id, in log order; nothing else is plotted.
C10_ViewsAreFilters ==
    SubplotDrawn =>
        /\ {ids[k] : k \in 1..Len(ids)} = WorkerIds
        /\ Len(ids) = Cardinality(WorkerIds)
        /\ \A k \in 1..Len(ids) :
              PlottedAt(k + 1) = WorkIntervals(ids[k])
        /\ PlottedAt(0) = NetworkIntervals
        /\ \A k \in 1..Len(axes) :
              \/ axes[k].ys = <<0, 0>>
              \/ \E j \in 1..Len(ids) : axes[k].ys = <<j + 1, j + 1>>

\* A log whose worker 1 rows are not in start order, with a network row of
\* another id in between: the chart keeps the log's order.
C10_Witness ==
    /\ SubplotDrawn
    /\ events = <<<<"work", 1, 5, 9>>, <<"network", 3, 0, 2>>, <<"work", 1, 0, 5>>>>
    /\ axes = <<[xs |-> <<5, 9>>, ys |-> <<2, 2>>, fmt |-> "-"],
                [xs |-> <<0, 5>>, ys |-> <<2, 2>>, fmt |-> "-"],
                [xs |-> <<0, 2>>, ys |-> <<0, 0>>, fmt |-> "-^"]>>

(***************************************************************************)
(* bench_euler_dist.py: run_test(p, t) for every entry of the test table.  *)
(***************************************************************************)
BenchPeers == <<1, 2, 3, 4>>
BenchThreads == <<2, 3, 4, 5, 6, 7, 8>>

\* for p in test: for t in test[p]: the runs in order.
BenchTable ==
    [k \in 1..(Len(BenchPeers) * Len(BenchThreads)) |->
        <<BenchPeers[((k - 1) \div Len(BenchThreads)) + 1],
          BenchThreads[((k - 1) % Len(BenchThreads)) + 1]>>]

\* run_test(p, t) is called: peers, cmds and an empty handle list.
BenchNextRun ==
    /\ pc = "bench_next"
    /\ bi < Len(BenchTable)
    /\ bi' = bi + 1
    /\ peers' = generate_peers(BenchTable[bi'][1])
    /\ cmds' = [k \in 1..Len(peers') |->
                  bench_euler_cmd(BenchTable[bi'][2], GridSize, BlockSize, 1, peers', k - 1)]
    /\ out' = <<>>
    /\ wi' = 0
    /\ pc' = "launch"
    /\ UNCHANGED <<disk, disk0, stitchVars, perfVars, args, rets, results, reported>>

\* The wait comprehension of run_test ends, its list is dropped, run_test
\* returns.
RunTestReturn ==
    /\ pc = "wait"
    /\ ~MoreToWait(out, wi)
    /\ rets' = <<>>
    /\ pc' = "bench_next"
    /\ UNCHANGED <<disk, disk0, stitchVars, perfVars, args, peers, cmds, out, wi, results, reported, bi>>

\* After the last run the timings are printed.
BenchReport ==
    /\ pc = "bench_next"
    /\ bi = Len(BenchTable)
    /\ pc' = "done"
    /\ UNCHANGED <<disk, disk0, stitchVars, perfVars, args, peers, cmds, out, wi, rets, results, reported, bi>>

BenchNext ==
    \/ BenchNextRun
    \/ LaunchNext
    \/ LaunchDone
    \/ \E k \in 1..Len(out), c \in ExitCodes : ProcExit(k, c)
    \/ WaitNext
    \/ RunTestReturn
    \/ BenchReport

BenchInit ==
    /\ disk = [path \in {RankPath(BenchPeers[k] - 1) : k \in 1..Len(BenchPeers)} |-> MissingFile]
    /\ disk0 = disk
    /\ args = [peers |-> 0, gui |-> FALSE, threads |-> 0, folds |-> 0, tfinal |-> ""]
    /\ pc = "bench_next"
    /\ peers = <<>>
    /\ cmds = <<>>
    /\ out = <<>>
    /\ wi = 0
    /\ rets = <<>>
    /\ results = <<>>
    /\ reported = {}
    /\ bi = 0
    /\ IdleStitch
    /\ IdlePerf

SpecBench == BenchInit /\ [][BenchNext]_vars

(***************************************************************************)
(* Properties of the run script and of the benchmark.                      *)
(***************************************************************************)
IsResultArtifact(path) ==
    StartsWith(path, "./state-rank-") /\ EndsWith(path, ".cbor")

StaleAtStart ==
    \E path \in DOMAIN disk0 : disk0[path].kind # "missing" /\ IsResultArtifact(path)

\* C1: when the directory holds a result artifact as the run starts, the
\* run is refused and no process is ever launched; and no process is launched
\* before the guard has scanned the directory and found it clean.
C1_GuardRefuses ==
    /\ StaleAtStart => /\ Len(out) = 0
                       /\ pc \in {"guard", "refused"}
                       /\ disk = disk0
    /\ Len(out) > 0 => pc # "guard" /\ ~StaleAtStart

\* The directory held exactly one file, a rank's result: the run was refused.
C1_Witness ==
    /\ pc = "refused"
    /\ {path \in DOMAIN disk0 : disk0[path].kind # "missing"} = {RankPath(0)}
    /\ Len(out) = 0

AllExited == \A k \in 1..Len(out) : out[k].st = "exited"
AfterWait == pc \in {"results", "stitch", "chart", "crashed", "done"}

\* C2: the script gets past the wait only when every launched process has
\* exited, whatever the order of the exits: while one still runs the wait
\* cannot end, and stitching starts with all of them exited.
C2_WaitAll ==
    /\ AfterWait => Len(out) = args.peers /\ AllExited
    /\ (pc = "wait" /\ ~AllExited) => ~ENABLED WaitDone

\* The launcher is past the first two waits and blocked on the third process,
\* which still runs.
C2_Witness ==
    /\ pc = "wait"
    /\ Len(out) = 3
    /\ wi = 2
    /\ out[3].st = "running"
    /\ rets = <<1, 0>>

FailedRanks == {k - 1 : k \in {j \in 1..Len(out) : out[j].st = "exited" /\ out[j].code # 0}}

\* C3: after the wait the script has reported exactly the ranks whose process
\* exited non-zero.
C3_FailedRanksReported == AfterWait => reported = FailedRanks

\* C4: the wait starts when every rank's process has been started, one per
\* rank in rank order, and starting the next process never waits for an exit of
\* a process started before.
C4_ConcurrentLaunch ==
    /\ (pc = "wait" \/ wi > 0) => Len(out) = args.peers
    /\ \A k \in 1..Len(out) : out[k].cmd.rank = Str(k - 1)
    /\ (pc = "launch" /\ Len(out) < args.peers) => ENABLED LaunchNext

\* All three processes run at once and none has been waited on.
C4_Witness ==
    /\ pc = "wait"
    /\ wi = 0
    /\ Len(out) = 3
    /\ \A k \in 1..3 : out[k].st = "running"

\* The host and the port of an address "host:port".
ColonAt(a) == CHOOSE k \in 1..Len(a) : SubSeq(a, k, k) = ":"
AddrHost(a) == SubSeq(a, 1, ColonAt(a) - 1)
AddrPort(a) == ParseInt(SubSeq(a, ColonAt(a) + 1, Len(a)))

\* C9: in every run of the benchmark the peer list has one address per rank,
\* in rank order: the loopback host and port 8000 + rank, so the ports are
\* different, contiguous and increasing and the list is a function of the peer
\* count alone.
C9_Topology ==
    bi >= 1 =>
        /\ Len(peers) = BenchTable[bi][1]
        /\ \A k \in 1..Len(peers) :
              /\ AddrHost(peers[k]) = "127.0.0.1"
              /\ AddrPort(peers[k]) = 8000 + (k - 1)
        /\ \A k \in 1..(Len(peers) - 1) : AddrPort(peers[k + 1]) = AddrPort(peers[k]) + 1
        /\ \A j, k \in 1..Len(peers) : j # k => peers[j] # peers[k]

C9_Witness ==
    /\ pc = "wait"
    /\ Len(peers) = 4
    /\ peers = <<"127.0.0.1:8000", "127.0.0.1:8001", "127.0.0.1:8002", "127.0.0.1:8003">>
    /\ Len(out) = 4

(***************************************************************************)
(* Properties of the stitcher, stated over its inputs (files, disk0).      *)
(***************************************************************************)
InputReadable(k) == disk0[files[k]].kind = "state"
AllInputsReadable == \A k \in 1..Len(files) : InputReadable(k)
InputPatches(k) == disk0[files[k]].primitive

RECURSIVE ConcatInputs(_)
ConcatInputs(k) ==
    IF k = 0 THEN <<>> ELSE ConcatInputs(k - 1) \o InputPatches(k)

SameIdentity(p, q) ==
    /\ p.rect[1].start = q.rect[1].start
    /\ p.rect[1].end = q.rect[1].end
    /\ p.rect[2].start = q.rect[2].start
    /\ p.rect[2].end = q.rect[2].end

HasDuplicate(ps) ==
    \E i, j \in 1..Len(ps) : i < j /\ SameIdentity(ps[i], ps[j])

StitchEnded == spc \in {"written", "rejected", "crashed"}
OutputWritten == disk[StitchedPath].kind # "missing"

\* C5: when every input loads, the merge is rejected and nothing is written
\* if two patches of the combined sequence (of different files or of one) have
\* the same identity tuple; otherwise the combined state is written.
C5_DuplicateRejected ==
    AllInputsReadable =>
        IF HasDuplicate(ConcatInputs(Len(files)))
        THEN /\ ~OutputWritten
             /\ StitchEnded => spc = "rejected"
        ELSE StitchEnded => /\ spc = "written"
                            /\ disk[StitchedPath] = combined
                            /\ combined.primitive = ConcatInputs(Len(files))

\* Two different files, neither with a duplicate of its own, share a rect:
\* the merge was rejected.
C5_Witness ==
    /\ spc = "rejected"
    /\ Len(files) = 2
    /\ files[1] # files[2]
    /\ ~HasDuplicate(InputPatches(1))
    /\ ~HasDuplicate(InputPatches(2))
    /\ Len(InputPatches(1)) + Len(InputPatches(2)) >= 3
    /\ ~OutputWritten

\* C6: the combined patch sequence is the inputs' patch sequences, one after
\* the other in argument order: after each merge step for the files merged
\* so far, and in the written output for all of them.
C6_OrderPreserved ==
    /\ spc = "merge" => combined.primitive = ConcatInputs(si)
    /\ spc \in {"written", "rejected"} => combined.primitive = ConcatInputs(Len(files))
    /\ spc = "written" => disk[StitchedPath].primitive = ConcatInputs(Len(files))

\* Three different files with different patches, not in rank order, merged.
C6_Witness ==
    /\ spc = "written"
    /\ Len(files) = 3
    /\ files[1] = RankPath(2) /\ files[2] = RankPath(0) /\ files[3] = RankPath(1)
    /\ \A k \in 1..3 : Len(InputPatches(k)) >= 1
    /\ Len(disk[StitchedPath].primitive) = 4

\* C7: if any input file, at any position, is missing or unreadable, the
\* output is never written.
C7_MissingFileAborts ==
    ~AllInputsReadable => /\ ~OutputWritten
                          /\ spc # "written"
                          /\ StitchEnded => spc = "crashed"

\* The first two files loaded, the third did not: the script has stopped
\* without output.
C7_Witness ==
    /\ spc = "crashed"
    /\ Len(files) = 3
    /\ InputReadable(1) /\ InputReadable(2) /\ ~InputReadable(3)
    /\ Len(InputPatches(1)) >= 1
    /\ si = 2
    /\ ~OutputWritten

\* C8 as stated: stitching any one (loadable) file writes that file's patch
\* sequence.
C8_Original ==
    (Len(files) = 1 /\ InputReadable(1) /\ StitchEnded) =>
        /\ OutputWritten
        /\ disk[StitchedPath].primitive = InputPatches(1)

\* C8 amended: stitching one loadable file whose patches have pairwise
\* different identity tuples writes that file unchanged; when two of its patches
\* share an identity tuple nothing is written.
C8_SingleFileRoundTrip ==
    (Len(files) = 1 /\ InputReadable(1) /\ StitchEnded) =>
        IF HasDuplicate(InputPatches(1))
        THEN spc = "rejected" /\ ~OutputWritten
        ELSE /\ spc = "written"
             /\ disk[StitchedPath] = disk0[files[1]]

C8_Witness ==
    /\ Len(files) = 1
    /\ spc = "written"
    /\ Len(InputPatches(1)) = 2
    /\ disk[StitchedPath] = disk0[files[1]]

====
